---- MODULE Spec2Model ----
(***************************************************************************)
(* Status-update route (PATCH) of the submission-tracking application:     *)
(* lazy database initialisation, status validation, lookup, status write,  *)
(* notification dispatch and NotificationLog writes, as a state machine    *)
(* over concurrently handled requests.                                     *)
(***************************************************************************)
EXTENDS Integers, FiniteSets, Sequences, Bags, TLC

\* ------------------------------------------------------------------ bounds
MaxRequests == 2

\* the administrators' browsers: each sends its next request after the answer
\* to its previous one, so two requests can be in flight together
Reqs == {"admin1", "admin2"}

\* --------------------------------------------------------------- constants
Statuses == {"PENGAJUAN_BARU", "DIPROSES", "SELESAI", "DITOLAK"}
DefaultStatus == "PENGAJUAN_BARU"
Channels == {"WHATSAPP", "EMAIL"}
SendStatuses == {"SUCCESS", "FAILED"}

\* JavaScript values that the handler can meet in place of a string
Undefined == "<undefined>"
Null == "<null>"
Absent == "<absent>"

\* rows of the submissions table, and ids a request can name
Subs == {"sub1"}
Ids == Subs \cup {"no-such-id"}
Emails == {Null, "", "a@b.com"}

\* what request.json() can deliver: a rejected parse, the JSON value null,
\* or a value whose .status is undefined, "", a non-member or a member
BadJson == [kind |-> "unparseable", status |-> Undefined]
NullJson == [kind |-> "null", status |-> Undefined]
StatusInputs == Statuses \cup {Undefined, "", "BATAL"}
Bodies == {BadJson, NullJson} \cup {[kind |-> "value", status |-> s] : s \in StatusInputs}

\* dispatch(submission, newStatus) -> {success: bool}, or an exception
DispatchOutcomes == {"success_true", "success_false", "throws"}

\* ------------------------------------------------------------------- state
VARIABLES
    dbInitialized,  \* module-level flag
    handle,         \* generation of the module-level Submission/NotificationLog (0 = null)
    initRuns,       \* history: how often the body of initDB was entered
    submissions,    \* the submissions table: id -> [status, email]
    logs,           \* the notification_logs table, a bag of rows
    req,            \* per request: position and locals of PATCH
    started,        \* requests received so far
    atArrival,      \* history: the submissions table when the request arrived
    wrote,          \* history: the request changed the submissions table
    trackTable,     \* the submissions table as the lookup route sees it: a set of rows
    lookup,         \* the lookup request: position and locals of GET
    dbCache,        \* vercel-init-db: databaseUrl -> the cached instance
    db,             \* per databaseUrl: the schema and data of that database
    call            \* per caller: position and locals of initializeVercelDatabase

patchVars == <<dbInitialized, handle, initRuns, submissions, logs, req, started,
               atArrival, wrote>>

trackVars == <<trackTable, lookup>>

initVars == <<dbCache, db, call>>

vars == <<patchVars, trackVars, initVars>>

NoSub == [status |-> Absent, email |-> Absent]
NoResponse == [code |-> 0, message |-> Absent, old_status |-> Absent,
               new_status |-> Absent, submission_id |-> Absent, error |-> Absent]
NoRow == [event |-> 0, submission_id |-> Absent, channel |-> Absent,
          send_status |-> Absent, to |-> Absent, status |-> Absent, result |-> FALSE]

IdleReq == [pc |-> "idle", event |-> 0, id |-> Absent, body |-> BadJson, status |-> Absent,
            sub |-> NoSub, oldStatus |-> Absent,
            dispatch |-> [c \in Channels |-> "none"],
            result |-> [c \in Channels |-> FALSE],
            promise |-> [c \in Channels |-> "none"],
            row |-> [c \in Channels |-> NoRow],
            usedHandle |-> 0,
            fault |-> FALSE,
            response |-> NoResponse]

\* ----------------------------------------------------------- pure helpers
\* !status: undefined and "" are falsy
Falsy(s) == s \in {Undefined, Null, ""}

ValidStatus(s) == ~Falsy(s) /\ s \in Statuses

\* slip: only null counts as "no email"
HasEmailNotNull(sub) == sub.email # Null

\* if (submission.email)
HasEmail(sub) == ~Falsy(sub.email)

\* slip: the unchanged-status check is dropped
StatusUnchangedNever(sub, s) == FALSE

\* submission.status === status
StatusUnchanged(sub, s) == sub.status = s

NullRow == [status |-> Null, email |-> Null]

\* slip: a lookup that ignores the key and returns the first row
FindRowAny(table, id) == table[CHOOSE k \in DOMAIN table : TRUE]

\* Submission.findByPk(id): the row, or null
FindRow(table, id) == IF id \in DOMAIN table THEN table[id] ELSE NullRow

\* slip: the outcome is not looked at
SendStatusAlwaysSuccess(success) == "SUCCESS"

\* waResult.success ? "SUCCESS" : "FAILED"
SendStatus(success) == IF success THEN "SUCCESS" ELSE "FAILED"

\* slip: the update is built but never saved
UpdateRowLost(table, id, s) == table

\* await submission.update({ status }): one row, keyed by id
UpdateRow(table, id, s) == [table EXCEPT ![id].status = s]

\* the destination written into payload.to
Destination(sub, id, c) == IF c = "WHATSAPP" THEN "no_wa:" \o id ELSE sub.email

LogRow(e, id, sub, c, s, success) ==
    [event |-> e, submission_id |-> id, channel |-> c,
     send_status |-> SendStatus(success), to |-> Destination(sub, id, c),
     status |-> s, result |-> success]

\* variant: both dispatchers started together, as Promise.all([wa(), email()]) would
CallsAfterUpdateBoth(sub) == IF HasEmail(sub) THEN Channels ELSE {"WHATSAPP"}

\* dispatchers called right after the status write, before any other await
CallsAfterUpdate(sub) == {"WHATSAPP"}

\* dispatchers called once the messaging dispatcher has returned
CallsAfterWa(sub) == IF HasEmail(sub) THEN {"EMAIL"} ELSE {}

Response400Invalid == [NoResponse EXCEPT !.code = 400, !.message = "Status tidak valid"]
Response404 == [NoResponse EXCEPT !.code = 404, !.message = "Pengajuan tidak ditemukan"]
Response400Same == [NoResponse EXCEPT !.code = 400, !.message = "Status sudah sama"]

\* slip: old_status taken from the instance after the update
Response200OldAfterUpdate(old, new, id) ==
    [NoResponse EXCEPT !.code = 200, !.message = "Status berhasil diupdate",
                       !.old_status = new, !.new_status = new, !.submission_id = id]

Response200(old, new, id) ==
    [NoResponse EXCEPT !.code = 200, !.message = "Status berhasil diupdate",
                       !.old_status = old, !.new_status = new, !.submission_id = id]

\* the catch block: status 500, the generic message and error.message
Response500(detail) ==
    [NoResponse EXCEPT !.code = 500, !.message = "Terjadi kesalahan internal server",
                       !.error = detail]

\* variant: the catch block restores the status it read
TableAfterCatchRollback(table, id, old) ==
    IF id \in DOMAIN table /\ old # Absent THEN [table EXCEPT ![id].status = old] ELSE table

\* the catch block writes nothing to the submissions table
TableAfterCatch(table, id, old) == table

\* ------------------------------------------- GET /track/[tracking_code]
\* text is a sequence of characters
Digit == {"0", "1", "2", "3", "4", "5", "6", "7", "8", "9"}
Whitespace == {" "}

\* searchParams.get of a parameter that is not in the URL
NullParam == <<Null>>

\* s.trim()
RECURSIVE TrimStart(_)
TrimStart(s) == IF s # <<>> /\ Head(s) \in Whitespace THEN TrimStart(Tail(s)) ELSE s

RECURSIVE TrimEnd(_)
TrimEnd(s) ==
    IF s # <<>> /\ s[Len(s)] \in Whitespace THEN TrimEnd(SubSeq(s, 1, Len(s) - 1)) ELSE s

Trim(s) == TrimEnd(TrimStart(s))

\* slip: the first n characters, s.slice(0, n)
SliceFirst(s, n) == SubSeq(s, 1, IF Len(s) > n THEN n ELSE Len(s))

\* s.slice(-n): the last n characters, or all of s when it is shorter
SliceLast(s, n) == SubSeq(s, IF Len(s) > n THEN Len(s) - n + 1 ELSE 1, Len(s))

\* /^\d+$/.test(s)
AllDigits(s) == s # <<>> /\ \A i \in 1..Len(s) : s[i] \in Digit

Last4Len == 4

\* !tracking_code || !tracking_code.trim()
BlankCode(tc) == tc = <<>> \/ Trim(tc) = <<>>

\* !last4_nik || last4_nik.length !== 4 || !/^\d+$/.test(last4_nik)
BadLast4(p) == p = NullParam \/ p = <<>> \/ Len(p) # Last4Len \/ ~AllDigits(p)

Code1 == <<"T", "1">>
Code2 == <<"T", "2">>
Nik1 == <<"3", "2", "0", "1", "0", "1", "0", "1", "0", "1", "9", "0", "1", "2", "3", "4">>
Nik2 == <<"1", "2", "3", "4", "0", "2", "0", "2", "0", "2", "8", "5", "5", "6", "7", "8">>

TrackRow(id, code, nik) ==
    [id |-> id, tracking_code |-> code, nama |-> "Budi", nik |-> nik,
     email |-> "a@b.com", no_wa |-> "0812", jenis_layanan |-> "KTP",
     status |-> DefaultStatus, created_at |-> "t0", updated_at |-> "t0"]

Row1 == TrackRow("sub1", Code1, Nik1)
Row2 == TrackRow("sub2", Code2, Nik2)

\* tables the lookup can meet; tracking_code is unique
TrackTables == {{}, {Row1}, {Row1, Row2}}

\* the path parameter and the query parameter of a request
CodeInputs == {<<" ">>, Code1, <<" ", "T", "1", " ">>, Code2, <<"T", "9">>}
Last4Inputs ==
    {NullParam, <<>>, <<"2", "3", "4">>, <<"1", "2", "3", "4">>, <<"5", "6", "7", "8">>,
     <<"1", "2", "3", "a">>, <<"0", "1", "2", "3", "4">>}

ViewFields ==
    {"id", "tracking_code", "nama", "jenis_layanan", "status", "created_at", "updated_at"}

\* slip: the whole row is returned
SubmissionDataWhole(row) == row

\* submissionData: the fields of the row that are returned
SubmissionData(row) == [f \in ViewFields |-> row[f]]

TrackResponse(code, text) == [code |-> code, body |-> [message |-> text]]

Track400Code == TrackResponse(400, "Kode tracking wajib diisi")
Track400Last4 == TrackResponse(400, "4 digit terakhir NIK wajib diisi dan harus berupa angka")
Track404 == TrackResponse(404, "Pengajuan tidak ditemukan")
Track403 == TrackResponse(403, "4 digit terakhir NIK tidak sesuai")
Track500 == TrackResponse(500, "Terjadi kesalahan internal server")
Track200(row) == [code |-> 200, body |-> SubmissionData(row)]
TrackNoResponse == [code |-> 0, body |-> [message |-> Absent]]

IdleLookup ==
    [pc |-> "idle", tracking_code |-> <<>>, last4_nik |-> NullParam, fault |-> FALSE,
     response |-> TrackNoResponse]

\* Submission.findOne({ where: { tracking_code } }): the rows that match
FindOne(table, code) == {row \in table : row.tracking_code = code}

\* -------------------------------------------------- lib/vercel-init-db.js
Urls == {"postgres://a", "postgres://b"}
Callers == {"route1", "route2"}

\* the database behind a URL, as far as initializeVercelDatabase reads and
\* changes it: the admins table, its email column, admins with a null email,
\* an admin row, and whether the data it held has been dropped
Db(table, column, nulls, admin) ==
    [adminsTable |-> table, emailColumn |-> column, nullEmails |-> nulls,
     hasAdmin |-> admin, data |-> "kept"]

EmptyDb == Db(FALSE, FALSE, FALSE, FALSE)
OldSchemaDb == Db(TRUE, FALSE, FALSE, TRUE)
NullEmailDb == Db(TRUE, TRUE, TRUE, TRUE)

InitialDbs == {EmptyDb, OldSchemaDb, NullEmailDb}

\* UPDATE admins SET email = ... WHERE email IS NULL
BackfillDb(d) == [d EXCEPT !.nullEmails = FALSE]

\* sequelize.sync({ alter: true }): tables created, columns added or changed
SyncAlterDb(d) == [d EXCEPT !.adminsTable = TRUE, !.emailColumn = TRUE]

\* sequelize.sync({ force: false }): missing tables are created, existing
\* tables are left as they are
SyncConservativeDb(d) ==
    [d EXCEPT !.adminsTable = TRUE,
              !.emailColumn = IF d.adminsTable THEN @ ELSE TRUE]

\* sequelize.sync({ force: true }): every table is dropped and created again
SyncForceDb(d) ==
    [d EXCEPT !.adminsTable = TRUE, !.emailColumn = TRUE, !.nullEmails = FALSE,
              !.hasAdmin = FALSE, !.data = "dropped"]

\* Admin.create of the default admin
CreateAdminDb(d) == [d EXCEPT !.hasAdmin = TRUE]

\* variant: the catch of syncError goes straight to the force sync
CatchSyncErrorForce == "syncForce"

\* catch (syncError): the conservative sync is tried next
CatchSyncError == "syncConservative"

\* catch (conservativeError): the force sync is tried next
CatchConservativeError == "syncForce"

Phase(name, ok) == [phase |-> name, ok |-> ok]

IdleCall ==
    [pc |-> "idle", url |-> Absent, ran |-> <<>>, dropped |-> FALSE, result |-> Absent]

\* ------------------------------------------------------------------ Init
\* the PATCH route right after the module is loaded
InitPatch ==
    /\ dbInitialized = FALSE
    /\ handle = 0
    /\ initRuns = 0
    /\ submissions \in [Subs -> [status : {DefaultStatus}, email : Emails]]
    /\ logs = EmptyBag
    /\ req = [r \in Reqs |-> IdleReq]
    /\ started = 0
    /\ atArrival = [r \in Reqs |-> submissions]
    /\ wrote = [r \in Reqs |-> FALSE]

\* no lookup has been received
NoLookup == lookup = IdleLookup

\* initializeVercelDatabase has not been called
NoInitCall ==
    /\ dbCache = [u \in Urls |-> Absent]
    /\ db = [u \in Urls |-> EmptyDb]
    /\ call = [c \in Callers |-> IdleCall]

Init ==
    /\ InitPatch
    /\ trackTable = {Row1} /\ NoLookup
    /\ NoInitCall

\* ------------------------------------------------------------- operations
Set(r, rec) == req' = [req EXCEPT ![r] = rec]

Respond(r, resp) == Set(r, [req[r] EXCEPT !.pc = "done", !.response = resp])

\* the catch block of PATCH, entered with the locals rec
CatchFrom(r, rec, detail) ==
    /\ Set(r, [rec EXCEPT !.pc = "done", !.response = Response500(detail)])
    /\ submissions' = TableAfterCatch(submissions, rec.id, rec.oldStatus)

Catch(r, detail) == CatchFrom(r, req[r], detail)

\* the same, entered because a store call rejected or a dispatcher threw
Throw(r, rec, detail) == CatchFrom(r, [rec EXCEPT !.fault = TRUE], detail)

Track(r) ==
    /\ wrote' = [wrote EXCEPT ![r] = @ \/ submissions' # submissions]
    /\ UNCHANGED <<atArrival, trackVars, initVars>>

\* no NotificationLog.create of the request is still running
Settled(rec) == \A c \in Channels : rec.promise[c] # "pending"

\* PATCH is called: initDB runs up to its first await
Arrive(r) ==
    /\ started < MaxRequests
    /\ req[r].pc \in {"idle", "done"}
    /\ Settled(req[r])
    /\ started' = started + 1
    /\ IF dbInitialized
       THEN /\ Set(r, [IdleReq EXCEPT !.pc = "json", !.event = started + 1])
            /\ UNCHANGED <<handle, initRuns>>
       ELSE /\ Set(r, [IdleReq EXCEPT !.pc = "authenticate", !.event = started + 1])
            /\ handle' = initRuns + 1
            /\ initRuns' = initRuns + 1
    /\ atArrival' = [atArrival EXCEPT ![r] = submissions]
    /\ wrote' = [wrote EXCEPT ![r] = FALSE]
    /\ UNCHANGED <<dbInitialized, submissions, logs, trackVars, initVars>>

\* await sequelize.authenticate()
Authenticate(r) ==
    /\ req[r].pc = "authenticate"
    /\ \/ Set(r, [req[r] EXCEPT !.pc = "sync"]) /\ UNCHANGED submissions
       \/ Throw(r, req[r], "authenticate failed")
    /\ UNCHANGED <<dbInitialized, handle, initRuns, logs, started>>
    /\ Track(r)

\* await sequelize.sync(); dbInitialized = true
Sync(r) ==
    /\ req[r].pc = "sync"
    /\ \/ /\ Set(r, [req[r] EXCEPT !.pc = "json"])
          /\ dbInitialized' = TRUE
          /\ UNCHANGED submissions
       \/ Throw(r, req[r], "sync failed") /\ UNCHANGED dbInitialized
    /\ UNCHANGED <<handle, initRuns, logs, started>>
    /\ Track(r)

\* const { id } = params; await request.json(); const { status } = body;
\* validation; findByPk is called
ReadBody(r) ==
    /\ req[r].pc = "json"
    /\ \E id \in Ids, b \in Bodies :
        LET rec == [req[r] EXCEPT !.id = id, !.body = b] IN
        /\ CASE b.kind = "unparseable" -> CatchFrom(r, rec, "SyntaxError: body is not JSON")
             [] b.kind = "null" -> CatchFrom(r, rec, "TypeError: cannot destructure null")
             [] OTHER ->
                  /\ UNCHANGED submissions
                  /\ IF ~ValidStatus(b.status)
                     THEN Set(r, [rec EXCEPT !.pc = "done", !.response = Response400Invalid])
                     ELSE Set(r, [rec EXCEPT !.pc = "find", !.status = b.status,
                                             !.usedHandle = handle])
    /\ UNCHANGED <<dbInitialized, handle, initRuns, logs, started>>
    /\ Track(r)

\* Submission.findByPk(id) settles; not-found and unchanged checks; update is called
FindByPk(r) ==
    /\ req[r].pc = "find"
    /\ \/ Throw(r, req[r], "findByPk failed")
       \/ /\ UNCHANGED submissions
          /\ LET sub == FindRow(submissions, req[r].id) IN
             IF sub = NullRow
             THEN Respond(r, Response404)
             ELSE IF StatusUnchanged(sub, req[r].status)
                  THEN Respond(r, Response400Same)
                  ELSE Set(r, [req[r] EXCEPT !.pc = "update", !.sub = sub,
                                             !.oldStatus = sub.status])
    /\ UNCHANGED <<dbInitialized, handle, initRuns, logs, started>>
    /\ Track(r)

\* submission.update({ status }) settles; the messaging dispatcher is called
Update(r) ==
    /\ req[r].pc = "update"
    /\ \/ Throw(r, req[r], "update failed")
       \/ /\ submissions' = UpdateRow(submissions, req[r].id, req[r].status)
          /\ LET sub == [req[r].sub EXCEPT !.status = req[r].status] IN
             Set(r, [req[r] EXCEPT !.pc = "wa", !.sub = sub,
                        !.dispatch = [c \in Channels |->
                            IF c \in CallsAfterUpdate(sub) THEN "inflight" ELSE "none"]])
    /\ UNCHANGED <<dbInitialized, handle, initRuns, logs, started>>
    /\ Track(r)

\* sendStatusUpdateNotification settles; NotificationLog.create(WHATSAPP) is
\* started; the email dispatcher is called if the submission has an email
WaReturn(r) ==
    /\ req[r].pc = "wa"
    /\ req[r].dispatch["WHATSAPP"] = "inflight"
    /\ \E out \in DispatchOutcomes :
        IF out = "throws"
        THEN /\ Throw(r, [req[r] EXCEPT !.dispatch["WHATSAPP"] = "threw"],
                      "messaging dispatcher threw")
        ELSE /\ UNCHANGED submissions
             /\ LET ok == (out = "success_true")
                    next == CallsAfterWa(req[r].sub) IN
                Set(r, [req[r] EXCEPT
                    !.pc = IF next = {} THEN "join" ELSE "email",
                    !.dispatch = [c \in Channels |->
                        IF c = "WHATSAPP" THEN "returned"
                        ELSE IF c \in next THEN "inflight" ELSE @[c]],
                    !.result["WHATSAPP"] = ok,
                    !.promise["WHATSAPP"] = "pending",
                    !.row["WHATSAPP"] =
                        LogRow(req[r].event, req[r].id, req[r].sub, "WHATSAPP", req[r].status, ok)])
    /\ UNCHANGED <<dbInitialized, handle, initRuns, logs, started>>
    /\ Track(r)

\* sendStatusUpdateEmail settles; NotificationLog.create(EMAIL) is started
EmailReturn(r) ==
    /\ req[r].pc = "email"
    /\ req[r].dispatch["EMAIL"] = "inflight"
    /\ \E out \in DispatchOutcomes :
        IF out = "throws"
        THEN /\ Throw(r, [req[r] EXCEPT !.dispatch["EMAIL"] = "threw"],
                      "email dispatcher threw")
        ELSE /\ UNCHANGED submissions
             /\ LET ok == (out = "success_true") IN
                Set(r, [req[r] EXCEPT
                    !.pc = "join",
                    !.dispatch["EMAIL"] = "returned",
                    !.result["EMAIL"] = ok,
                    !.promise["EMAIL"] = "pending",
                    !.row["EMAIL"] =
                        LogRow(req[r].event, req[r].id, req[r].sub, "EMAIL", req[r].status, ok)])
    /\ UNCHANGED <<dbInitialized, handle, initRuns, logs, started>>
    /\ Track(r)

\* a started NotificationLog.create settles: the row is inserted, or it rejects
LogCreateSettle(r, c) ==
    /\ req[r].promise[c] = "pending"
    /\ \/ /\ logs' = logs (+) SetToBag({req[r].row[c]})
          /\ Set(r, [req[r] EXCEPT !.promise[c] = "fulfilled"])
       \/ /\ Set(r, [req[r] EXCEPT !.promise[c] = "rejected", !.fault = TRUE])
          /\ UNCHANGED logs
    /\ UNCHANGED <<dbInitialized, handle, initRuns, submissions, started>>
    /\ Track(r)

\* Promise.all settles: it rejects as soon as one promise has rejected and is
\* fulfilled once every promise is
AnyRejected(promise) == \E c \in Channels : promise[c] = "rejected"

AllFulfilled(promise) == \A c \in Channels : promise[c] \in {"none", "fulfilled"}

\* await Promise.all(notificationPromises); the 200 response
Join(r) ==
    /\ req[r].pc = "join"
    /\ \/ /\ AnyRejected(req[r].promise)
          /\ Catch(r, "NotificationLog.create failed")
       \/ /\ ~AnyRejected(req[r].promise)
          /\ AllFulfilled(req[r].promise)
          /\ Respond(r, Response200(req[r].oldStatus, req[r].status, req[r].id))
          /\ UNCHANGED submissions
    /\ UNCHANGED <<dbInitialized, handle, initRuns, logs, started>>
    /\ Track(r)

\* everything one request can do next
Step(r) ==
    \/ Arrive(r)
    \/ Authenticate(r)
    \/ Sync(r)
    \/ ReadBody(r)
    \/ FindByPk(r)
    \/ Update(r)
    \/ WaReturn(r)
    \/ EmailReturn(r)
    \/ \E c \in Channels : LogCreateSettle(r, c)
    \/ Join(r)

\* requests handled one after the other: one administrator
Next == Step("admin1")

Spec == Init /\ [][Next]_vars

\* requests of two administrators in flight together
NextRace == \E r \in Reqs : Step(r)

SpecRace == Init /\ [][NextRace]_vars

\* a run in which no store call rejects, no dispatcher throws or reports a
\* failure, and every request names the submission with a member status
CleanRun ==
    \A r \in Reqs :
        /\ ~req[r].fault
        /\ req[r].id # Absent => /\ req[r].id \in Subs
                                 /\ req[r].body.kind = "value"
                                 /\ req[r].body.status \in Statuses
        /\ \A c \in Channels : req[r].dispatch[c] = "returned" => req[r].result[c]

\* two administrators in flight together, in a clean run
NextRaceClean ==
    \E r \in Reqs :
        \/ Arrive(r) /\ CleanRun'
        \/ Authenticate(r) /\ CleanRun'
        \/ Sync(r) /\ CleanRun'
        \/ ReadBody(r) /\ CleanRun'
        \/ FindByPk(r) /\ CleanRun'
        \/ Update(r) /\ CleanRun'
        \/ WaReturn(r) /\ CleanRun'
        \/ EmailReturn(r) /\ CleanRun'
        \/ (\E c \in Channels : LogCreateSettle(r, c)) /\ CleanRun'
        \/ Join(r) /\ CleanRun'

SpecRaceClean == Init /\ [][NextRaceClean]_vars

\* ---------------------------------------------- the lookup route, GET
\* GET is called with a path parameter and a query string; getVercelDatabase
\* is awaited
TrackArrive ==
    /\ lookup.pc \in {"idle", "done"}
    /\ \E tc \in CodeInputs, p \in Last4Inputs :
        lookup' = [IdleLookup EXCEPT !.pc = "db", !.tracking_code = tc, !.last4_nik = p]
    /\ UNCHANGED <<trackTable, patchVars, initVars>>

\* the catch block of GET
TrackCatch == lookup' = [lookup EXCEPT !.pc = "done", !.fault = TRUE, !.response = Track500]

\* getVercelDatabase settles; validation of both parameters; findOne is called
GetDatabase ==
    /\ lookup.pc = "db"
    /\ \/ TrackCatch
       \/ lookup' =
            IF BlankCode(lookup.tracking_code)
            THEN [lookup EXCEPT !.pc = "done", !.response = Track400Code]
            ELSE IF BadLast4(lookup.last4_nik)
                 THEN [lookup EXCEPT !.pc = "done", !.response = Track400Last4]
                 ELSE [lookup EXCEPT !.pc = "find"]
    /\ UNCHANGED <<trackTable, patchVars, initVars>>

\* findOne settles; not-found check, comparison of the last four characters
\* of nik, the response
FindOneReturn ==
    /\ lookup.pc = "find"
    /\ \/ TrackCatch
       \/ LET found == FindOne(trackTable, Trim(lookup.tracking_code)) IN
          lookup' =
            IF found = {}
            THEN [lookup EXCEPT !.pc = "done", !.response = Track404]
            ELSE LET submission == CHOOSE row \in found : TRUE IN
                 IF SliceLast(submission.nik, Last4Len) # lookup.last4_nik
                 THEN [lookup EXCEPT !.pc = "done", !.response = Track403]
                 ELSE [lookup EXCEPT !.pc = "done", !.response = Track200(submission)]
    /\ UNCHANGED <<trackTable, patchVars, initVars>>

NextTrack ==
    \/ TrackArrive
    \/ GetDatabase
    \/ FindOneReturn

\* the lookup route alone: the PATCH route is not called
InitTrack ==
    /\ InitPatch /\ submissions = [s \in Subs |-> [status |-> DefaultStatus, email |-> Null]]
    /\ trackTable \in TrackTables /\ NoLookup
    /\ NoInitCall

SpecTrack == InitTrack /\ [][NextTrack]_vars

\* ----------------------------------------------- initializeVercelDatabase
SetCall(c, rec) == call' = [call EXCEPT ![c] = rec]

SetDb(u, d) == db' = [db EXCEPT ![u] = d]

\* the outer catch: the error is logged and thrown again, nothing is cached
Rethrow(c, rec) ==
    /\ SetCall(c, [rec EXCEPT !.pc = "done", !.result = "threw"])
    /\ UNCHANGED dbCache

\* a step of the alter phase threw: catch (syncError)
AlterFailed(c) ==
    /\ SetCall(c, [call[c] EXCEPT !.pc = CatchSyncError,
                                  !.ran = Append(@, Phase("alter", FALSE))])
    /\ UNCHANGED <<db, dbCache>>

\* dbCache.set(databaseUrl, dbInstance); return dbInstance
CacheAndReturn(c, rec) ==
    /\ dbCache' = [dbCache EXCEPT ![rec.url] = c]
    /\ SetCall(c, [rec EXCEPT !.pc = "done", !.result = c])

\* initializeVercelDatabase(databaseUrl) is called: the cache check, the
\* models, authenticate is called
InitializeCall(c) ==
    /\ call[c].pc \in {"idle", "done"}
    /\ \E u \in Urls :
        IF dbCache[u] # Absent
        THEN SetCall(c, [IdleCall EXCEPT !.pc = "done", !.url = u, !.result = dbCache[u]])
        ELSE SetCall(c, [IdleCall EXCEPT !.pc = "authenticate", !.url = u])
    /\ UNCHANGED <<dbCache, db, trackVars, patchVars>>

\* await sequelize.authenticate()
AuthenticateDb(c) ==
    /\ call[c].pc = "authenticate"
    /\ \/ SetCall(c, [call[c] EXCEPT !.pc = "tableQuery"]) /\ UNCHANGED dbCache
       \/ Rethrow(c, call[c])
    /\ UNCHANGED <<db, trackVars, patchVars>>

\* the query whether the admins table exists
TableQuery(c) ==
    /\ call[c].pc = "tableQuery"
    /\ \/ /\ SetCall(c, [call[c] EXCEPT !.pc =
                IF db[call[c].url].adminsTable THEN "columnQuery" ELSE "syncAlter"])
          /\ UNCHANGED <<db, dbCache>>
       \/ AlterFailed(c)
    /\ UNCHANGED <<trackVars, patchVars>>

\* the query whether admins has an email column
ColumnQuery(c) ==
    /\ call[c].pc = "columnQuery"
    /\ \/ /\ SetCall(c, [call[c] EXCEPT !.pc =
                IF db[call[c].url].emailColumn THEN "countQuery" ELSE "syncAlter"])
          /\ UNCHANGED <<db, dbCache>>
       \/ AlterFailed(c)
    /\ UNCHANGED <<trackVars, patchVars>>

\* the count of admins with a null email
CountQuery(c) ==
    /\ call[c].pc = "countQuery"
    /\ \/ /\ SetCall(c, [call[c] EXCEPT !.pc =
                IF db[call[c].url].nullEmails THEN "backfill" ELSE "syncAlter"])
          /\ UNCHANGED <<db, dbCache>>
       \/ AlterFailed(c)
    /\ UNCHANGED <<trackVars, patchVars>>

\* the UPDATE that fills the null emails
Backfill(c) ==
    /\ call[c].pc = "backfill"
    /\ \/ /\ SetDb(call[c].url, BackfillDb(db[call[c].url]))
          /\ SetCall(c, [call[c] EXCEPT !.pc = "syncAlter"])
          /\ UNCHANGED dbCache
       \/ AlterFailed(c)
    /\ UNCHANGED <<trackVars, patchVars>>

\* await sequelize.sync({ alter: true })
SyncAlter(c) ==
    /\ call[c].pc = "syncAlter"
    /\ \/ /\ SetDb(call[c].url, SyncAlterDb(db[call[c].url]))
          /\ SetCall(c, [call[c] EXCEPT !.pc = "adminCount",
                                        !.ran = Append(@, Phase("alter", TRUE))])
          /\ UNCHANGED dbCache
       \/ AlterFailed(c)
    /\ UNCHANGED <<trackVars, patchVars>>

\* await sequelize.sync({ force: false })
SyncConservative(c) ==
    /\ call[c].pc = "syncConservative"
    /\ \/ /\ SetDb(call[c].url, SyncConservativeDb(db[call[c].url]))
          /\ SetCall(c, [call[c] EXCEPT !.pc = "adminCount",
                                        !.ran = Append(@, Phase("conservative", TRUE))])
       \/ /\ SetCall(c, [call[c] EXCEPT !.pc = CatchConservativeError,
                                        !.ran = Append(@, Phase("conservative", FALSE))])
          /\ UNCHANGED db
    /\ UNCHANGED <<dbCache, trackVars, patchVars>>

\* await sequelize.sync({ force: true }); an error leaves the function
SyncForce(c) ==
    /\ call[c].pc = "syncForce"
    /\ \/ /\ SetDb(call[c].url, SyncForceDb(db[call[c].url]))
          /\ SetCall(c, [call[c] EXCEPT !.pc = "adminCount", !.dropped = TRUE,
                                        !.ran = Append(@, Phase("force", TRUE))])
          /\ UNCHANGED dbCache
       \/ /\ Rethrow(c, [call[c] EXCEPT !.ran = Append(@, Phase("force", FALSE))])
          /\ UNCHANGED db
    /\ UNCHANGED <<trackVars, patchVars>>

\* await Admin.count(); an error is logged and initialization goes on
AdminCount(c) ==
    /\ call[c].pc = "adminCount"
    /\ \/ /\ ~db[call[c].url].hasAdmin
          /\ SetCall(c, [call[c] EXCEPT !.pc = "adminCreate"])
          /\ UNCHANGED dbCache
       \/ /\ db[call[c].url].hasAdmin
          /\ CacheAndReturn(c, call[c])
       \/ CacheAndReturn(c, call[c])
    /\ UNCHANGED <<db, trackVars, patchVars>>

\* await bcrypt.hash, await Admin.create; an error (the username is taken)
\* is logged and initialization goes on
AdminCreate(c) ==
    /\ call[c].pc = "adminCreate"
    /\ \/ /\ ~db[call[c].url].hasAdmin
          /\ SetDb(call[c].url, CreateAdminDb(db[call[c].url]))
       \/ UNCHANGED db
    /\ CacheAndReturn(c, call[c])
    /\ UNCHANGED <<trackVars, patchVars>>

InitStep(c) ==
    \/ InitializeCall(c)
    \/ AuthenticateDb(c)
    \/ TableQuery(c)
    \/ ColumnQuery(c)
    \/ CountQuery(c)
    \/ Backfill(c)
    \/ SyncAlter(c)
    \/ SyncConservative(c)
    \/ SyncForce(c)
    \/ AdminCount(c)
    \/ AdminCreate(c)

NextInitDb == \E c \in Callers : InitStep(c)

\* initializeVercelDatabase alone: no route handler runs
InitInitDb ==
    /\ InitPatch /\ submissions = [s \in Subs |-> [status |-> DefaultStatus, email |-> Null]]
    /\ trackTable = {Row1} /\ NoLookup
    /\ dbCache = [u \in Urls |-> Absent]
    /\ db \in [Urls -> InitialDbs]
    /\ call = [c \in Callers |-> IdleCall]

SpecInitDb == InitInitDb /\ [][NextInitDb]_vars

\* ------------------------------------------------------------ properties
Done(r) == req[r].pc = "done"

\* the handler has read params and body
Parsed(r) == req[r].id # Absent

Requested(r) == req[r].body.status

\* the status the named submission had when the request arrived
StoredBefore(r) == atArrival[r][req[r].id].status

NonEmpty(e) == e \notin {Null, ""}

HasStoredEmail(r) == req[r].id \in Subs /\ NonEmpty(submissions[req[r].id].email)

\* NotificationLog rows of update event e on channel c
RowsOf(e, c) == {row \in BagToSet(logs) : row.event = e /\ row.channel = c}

RowCount(e, c) == BagCardinality([row \in RowsOf(e, c) |-> CopiesIn(row, logs)])

\* the request has changed no submission, called no dispatcher, created no row
NoEffects(r) ==
    /\ ~wrote[r]
    /\ \A c \in Channels :
        /\ req[r].dispatch[c] = "none"
        /\ req[r].promise[c] = "none"
        /\ RowCount(req[r].event, c) = 0

ExpectedOk(r) ==
    [code |-> 200, message |-> "Status berhasil diupdate",
     old_status |-> StoredBefore(r), new_status |-> Requested(r),
     submission_id |-> req[r].id, error |-> Absent]

\* C1: a PATCH with a member status S2 on an existing submission stored at
\* S1 # S2, when no store call rejects and no dispatcher throws, answers 200
\* with old_status = S1, new_status = S2 and the id, and the stored status is S2.
C1_UpdateSucceeds ==
    \A r \in Reqs :
        (/\ Done(r) /\ ~req[r].fault
         /\ req[r].id \in Subs /\ req[r].body.kind = "value"
         /\ Requested(r) \in Statuses
         /\ StoredBefore(r) # Requested(r))
        => /\ req[r].response = ExpectedOk(r)
           /\ submissions[req[r].id].status = Requested(r)

C1_Witness ==
    \E r \in Reqs :
        /\ Done(r) /\ req[r].response.code = 200
        /\ req[r].response.old_status = "DIPROSES"
        /\ req[r].response.new_status = "SELESAI"
        /\ StoredBefore(r) = "DIPROSES"
        /\ submissions[req[r].id].status = "SELESAI"

\* C2: a PATCH whose status equals the stored status changes nothing, calls
\* no dispatcher and creates no log row, and answers 400.
C2_SameStatusRejected ==
    \A r \in Reqs :
        (/\ Parsed(r) /\ req[r].id \in Subs /\ req[r].body.kind = "value"
         /\ Requested(r) = StoredBefore(r))
        => /\ NoEffects(r)
           /\ (Done(r) /\ ~req[r].fault) => req[r].response.code = 400

C2_Witness ==
    \E r \in Reqs :
        /\ Done(r) /\ req[r].response = Response400Same
        /\ Requested(r) = "DIPROSES"
        /\ req[r].id \in Subs /\ submissions[req[r].id].status = "DIPROSES"
        /\ RowCount(req[r].event, "WHATSAPP") = 0

\* C3: a PATCH whose status is missing, empty or no member of the enumeration
\* has no side effects and answers 400.
C3_InvalidStatusRejected ==
    \A r \in Reqs :
        (Parsed(r) /\ Requested(r) \notin Statuses)
        => /\ NoEffects(r)
           /\ (Done(r) /\ ~req[r].fault) => req[r].response.code = 400

C5_RowsPerUpdate ==
    \A r \in Reqs :
        (Done(r) /\ req[r].response.code = 200)
        => /\ RowCount(req[r].event, "WHATSAPP") = 1
           /\ RowCount(req[r].event, "EMAIL") = IF HasStoredEmail(r) THEN 1 ELSE 0
           /\ \A c \in Channels : \A row \in RowsOf(req[r].event, c) :
                row.submission_id = req[r].id

C5_Witness ==
    \E r \in Reqs :
        /\ Done(r) /\ req[r].response.code = 200
        /\ submissions[req[r].id].email = "a@b.com"
        /\ RowCount(req[r].event, "WHATSAPP") = 1
        /\ RowCount(req[r].event, "EMAIL") = 1

\* C6: the row written for a channel says FAILED when the dispatcher returned
\* success = false and SUCCESS when it returned true, and the answer, when no
\* store call rejects and no dispatcher throws, is the 200 answer made of the
\* old status, the new status and the id, whatever the dispatchers returned.
C6_FailureLoggedNotReported ==
    \A r \in Reqs :
        /\ \A c \in Channels :
            req[r].promise[c] = "fulfilled"
            => /\ RowCount(req[r].event, c) = 1
               /\ \A row \in RowsOf(req[r].event, c) :
                    row.send_status = IF req[r].result[c] THEN "SUCCESS" ELSE "FAILED"
        /\ (Done(r) /\ ~req[r].fault /\ req[r].dispatch["WHATSAPP"] = "returned")
           => req[r].response = ExpectedOk(r)

C6_Witness ==
    \E r \in Reqs :
        /\ Done(r) /\ req[r].response.code = 200
        /\ req[r].dispatch["WHATSAPP"] = "returned"
        /\ req[r].result["WHATSAPP"] = FALSE
        /\ \E row \in RowsOf(req[r].event, "WHATSAPP") : row.send_status = "FAILED"

\* C7: when the messaging dispatcher fails for a submission with an email, by
\* an error result or by throwing, the email dispatcher is still attempted,
\* and once the log writes have settled without rejecting every attempted
\* channel has exactly one row.
C7_IndependentChannels ==
    \A r \in Reqs :
        (/\ Done(r) /\ HasStoredEmail(r)
         /\ \/ req[r].dispatch["WHATSAPP"] = "threw"
            \/ req[r].dispatch["WHATSAPP"] = "returned" /\ req[r].result["WHATSAPP"] = FALSE
         /\ \A c \in Channels : req[r].promise[c] \notin {"pending", "rejected"})
        => /\ req[r].dispatch["EMAIL"] \in {"returned", "threw"}
           /\ \A c \in Channels :
                req[r].dispatch[c] # "none" => RowCount(req[r].event, c) = 1

\* a step of request r that is not the arrival of its next request
StepOf(r) == req'[r] # req[r] /\ req'[r].event = req[r].event

\* C8: once a request has written the status, no later step of that request
\* changes the submissions table again, and the stored status stays the
\* requested one, also when the request is answered 500.
C8_StatusWriteFinal ==
    /\ [](\A r \in Reqs : wrote[r] => submissions[req[r].id].status = req[r].status)
    /\ [][\A r \in Reqs : (wrote[r] /\ StepOf(r)) => submissions' = submissions]_vars

C8_Witness ==
    \E r \in Reqs :
        /\ Done(r) /\ req[r].response.code = 500 /\ wrote[r]
        /\ submissions[req[r].id].status = req[r].status
        /\ req[r].status # req[r].oldStatus

C10_NothingPendingAtResponse ==
    \A r \in Reqs :
        Done(r) => \A c \in Channels :
            req[r].dispatch[c] # "inflight" /\ req[r].promise[c] # "pending"

\* C11: the unchanged-status check compares the requested status with the row
\* findByPk returned, not with the row stored when update runs: every request
\* that got past the check, and every 200 answer, has a read status different
\* from the requested one and reports the read status as old_status. Two
\* concurrent requests S1 -> S2 on one submission can therefore both answer
\* 200 with old_status = S1, the second write changing nothing, and both
\* create log rows (C11_Witness).
C11_GuardOnReadRow ==
    \A r \in Reqs :
        /\ req[r].pc \in {"update", "wa", "email", "join"}
            => req[r].oldStatus # req[r].status
        /\ (Done(r) /\ req[r].response.code = 200)
            => /\ req[r].oldStatus # req[r].status
               /\ req[r].response.old_status = req[r].oldStatus
               /\ req[r].response.new_status = req[r].status

C11_Witness ==
    \E r1, r2 \in Reqs :
        /\ r1 # r2
        /\ Done(r1) /\ Done(r2)
        /\ req[r1].response = Response200("PENGAJUAN_BARU", "DIPROSES", "sub1")
        /\ req[r2].response = req[r1].response
        /\ StoredBefore(r1) = "PENGAJUAN_BARU" /\ StoredBefore(r2) = "PENGAJUAN_BARU"
        /\ wrote[r1] /\ ~wrote[r2]
        /\ RowCount(req[r1].event, "WHATSAPP") = 1
        /\ RowCount(req[r2].event, "WHATSAPP") = 1
        /\ submissions["sub1"].status = "DIPROSES"

\* C12: every 500 answer of PATCH carries the generic message only: no
\* detail of the error that was caught is in the response body.
C12_GenericBodyOnly ==
    \A r \in Reqs :
        (Done(r) /\ req[r].response.code = 500)
        => req[r].response =
             [NoResponse EXCEPT !.code = 500,
                                !.message = "Terjadi kesalahan internal server"]

\* C14: over any sequence or interleaving of PATCH requests the body of
\* initDB runs at most once, every request that reached the store used the
\* same Submission/NotificationLog handles, and no request is at a store call
\* while dbInitialized is false.
C14_InitOnce ==
    /\ initRuns <= 1
    /\ \A r1, r2 \in Reqs :
        (req[r1].usedHandle # 0 /\ req[r2].usedHandle # 0)
        => req[r1].usedHandle = req[r2].usedHandle
    /\ \A r \in Reqs :
        req[r].pc \in {"find", "update", "wa", "email", "join"} => dbInitialized

LookupDone == lookup.pc = "done"

\* the tracking code has a character that is not white space
NonBlank(tc) == \E i \in 1..Len(tc) : tc[i] \notin Whitespace

\* p is exactly four digits
FourDigits(p) == p # NullParam /\ Len(p) = 4 /\ \A i \in 1..Len(p) : p[i] \in Digit

\* the rows whose tracking code is the code asked for, surrounding blanks aside
Asked == {row \in trackTable : row.tracking_code = Trim(lookup.tracking_code)}

\* p is the last four characters of nik
IsLast4(nik, p) ==
    Len(nik) >= 4 /\ Len(p) = 4 /\ \A i \in 1..4 : nik[Len(nik) - 4 + i] = p[i]

ExpectedTrackCode ==
    IF ~(NonBlank(lookup.tracking_code) /\ FourDigits(lookup.last4_nik)) THEN 400
    ELSE IF Asked = {} THEN 404
    ELSE IF \E row \in Asked : IsLast4(row.nik, lookup.last4_nik) THEN 200 ELSE 403

NoPrivateField == DOMAIN lookup.response.body \cap {"nik", "email", "no_wa"} = {}

\* C13 as stated: every lookup is answered 200 exactly when the code is
\* non-blank, last4_nik is four digits, the submission exists and the digits
\* match, and 400, 404 or 403 otherwise, in that precedence; no response has
\* nik, email or no_wa.
C13_LookupAnswer ==
    LookupDone => /\ lookup.response.code = ExpectedTrackCode
                  /\ NoPrivateField

\* C13, amended: the same whenever getVercelDatabase and findOne succeed; when
\* one of them throws the answer is 500 with the generic message, whatever
\* the parameters are; a 200 answer is the view of the submission asked for;
\* no response has nik, email or no_wa.
C13_LookupAnswerUnlessStoreFails ==
    LookupDone =>
        /\ lookup.fault => lookup.response = Track500
        /\ ~lookup.fault =>
            /\ lookup.response.code = ExpectedTrackCode
            /\ lookup.response.code = 200 =>
                \E row \in Asked :
                    /\ DOMAIN lookup.response.body = ViewFields
                    /\ \A f \in ViewFields : lookup.response.body[f] = row[f]
        /\ NoPrivateField

C13_Witness ==
    /\ LookupDone /\ ~lookup.fault
    /\ lookup.response.code = 200
    /\ lookup.tracking_code = <<" ", "T", "1", " ">>
    /\ lookup.last4_nik = <<"1", "2", "3", "4">>
    /\ lookup.response.body.tracking_code = Code1

AlterFailedOnly == <<Phase("alter", FALSE)>>

BothFailed == <<Phase("alter", FALSE), Phase("conservative", FALSE)>>

\* the syncs one call has tried so far are a fallback chain
ChainOf(c) ==
    LET t == call[c].ran IN
    /\ Len(t) <= 3
    /\ \A i \in 1..Len(t) : t[i].phase = <<"alter", "conservative", "force">>[i]
    /\ \A i \in 2..Len(t) : ~t[i - 1].ok
    /\ call[c].pc = "syncConservative" => t = AlterFailedOnly
    /\ call[c].pc = "syncForce" => t = BothFailed
    /\ (t # <<>> /\ t[1].ok) => (Len(t) = 1 /\ ~call[c].dropped)
    /\ call[c].dropped => t = BothFailed \o <<Phase("force", TRUE)>>

\* data is dropped only by the force sync of a call whose alter phase and
\* conservative sync have failed
DropOnlyAsLastResort ==
    \A u \in Urls :
        db'[u].data # db[u].data
        => \E c \in Callers :
            /\ call[c].url = u /\ call[c].pc = "syncForce" /\ call[c].ran = BothFailed
            /\ call'[c].dropped

\* an instance is put in the cache by a call for that URL whose chain has
\* ended with a sync that succeeded
CacheOnlyAfterChain ==
    \A u \in Urls :
        dbCache'[u] # dbCache[u]
        => \E c \in Callers :
            /\ dbCache'[u] = c /\ call[c].url = u
            /\ call[c].pc \in {"adminCount", "adminCreate"} /\ call'[c].pc = "done"
            /\ call[c].ran # <<>> /\ call[c].ran[Len(call[c].ran)].ok

\* C15: in one call of initializeVercelDatabase the conservative sync is
\* tried only after the alter phase has failed and the force sync only after
\* the conservative sync has failed too; when the alter phase succeeds no
\* fallback runs and the call drops no data; the instance is cached under
\* its URL only after the chain has ended with a sync that succeeded.
C15_FallbackChain ==
    /\ [](\A c \in Callers : ChainOf(c))
    /\ [][DropOnlyAsLastResort /\ CacheOnlyAfterChain]_vars

C15_Witness ==
    \E c \in Callers :
        /\ call[c].pc = "done" /\ call[c].result = c
        /\ call[c].ran = BothFailed \o <<Phase("force", TRUE)>>
        /\ call[c].dropped
        /\ db[call[c].url].data = "dropped"
        /\ dbCache[call[c].url] = c

====
